---- MODULE Spec2Model ----
(***************************************************************************)
(* Transaction engine (src/src/lib/server.rs) and session consistency      *)
(* plugin (src/kanidmd/lib/src/plugins/session.rs) of kanidm.              *)
(*                                                                         *)
(* Time is counted in abstract ticks.  An Option<T> is a set with at most  *)
(* one element: {} is None, {x} is Some(x).                                *)
(***************************************************************************)
EXTENDS Integers, Sequences, FiniteSets, TLC

\* ---------------------------------------------------------------- bounds
MaxTime == 2      \* the wall clock stops advancing here
MaxOps == 2       \* create/modify calls inside one write transaction
MaxLife == 2      \* a new value with an expiry expires at curtime + MaxLife

\* GRACE_WINDOW (named at session.rs:146), in ticks.
GRACE_WINDOW == 2

Workers == {1, 2}      \* QueryServer actors (start() creates a pool of them)
SessionIds == {1}      \* ids of the Session values the callers issue
ParentIds == {1, 2}    \* parents the callers name in Oauth2Session values
Oauth2Ids == {1}
UserIds == {1}

VARIABLES
    clock,       \* wall clock (duration_from_epoch_now)
    be,          \* Record Store: committed entries, in creation order
    wopen,       \* a QueryServerWriteTransaction exists
    committed,   \* QueryServerWriteTransaction.committed
    curtime,     \* the open write transaction's current time
    be_txn,      \* QueryServerWriteTransaction.be_txn: its view of the store
                 \* (once the transaction is over: the view as it left it)
    be_stat,     \* state of the Record Store write transaction
    schema_stat, \* state of the Schema Store write view
    pre,         \* Record Store contents when the write transaction began
    touched,     \* uuids a successful modify of the write transaction targeted
    fin,         \* how the last write transaction ended
    last,        \* last operation, its inputs and what it returned
    nops,        \* create/modify calls in the open write transaction
    \* the QueryServer workers of start(), each handling one message at a time
    pc,              \* where each worker is in its handler
    be_writers,      \* workers holding a Record Store write transaction
    schema_writers,  \* workers holding the Schema Store write view
    view,            \* each worker's transaction: its view of the Record Store
    snap,            \* the committed Record Store when that transaction began
    ret              \* what each worker's last handler returned

worker_vars == <<pc, be_writers, schema_writers, view, snap, ret>>

vars == <<clock, be, wopen, committed, curtime, be_txn, be_stat, schema_stat,
          pre, touched, fin, last, nops, worker_vars>>

\* the variables of the single transaction of Spec and EngineSpec, except be
txn_vars == <<clock, wopen, committed, curtime, be_txn, be_stat, schema_stat,
              pre, touched, fin, last, nops>>

\* ------------------------------------------------------------ data model
ATTR_SESSION == "user_auth_token_session"
ATTR_OAUTH2 == "oauth2_session"
ATTR_DESC == "description"

None == {}
Some(x) == {x}

\* Value::Session(id, Session { expiry, issued_at, .. })
SessionValue(id, expiry, issued_at) ==
    [id |-> id, expiry |-> expiry, issued_at |-> issued_at]

\* Value::Oauth2Session(id, Oauth2Session { parent, expiry, issued_at, .. })
Oauth2Value(id, parent, expiry, issued_at) ==
    [id |-> id, parent |-> parent, expiry |-> expiry, issued_at |-> issued_at]

\* entry_init!(("class", ..), ("name", ..), ("uuid", ..), ("description", ..))
NewEntry(uuid, class, name) ==
    [uuid |-> uuid, class |-> class, name |-> name, description |-> 0,
     sess |-> {}, oa |-> {}]

\* an entry that already carries a session value when it is created
NewEntryWithSession(uuid, s) ==
    [NewEntry(uuid, "person", "testperson") EXCEPT !.sess = {s}]

\* ------------------------------------------------------ Schema Store (§6)
SchemaClasses == {"person", "account", "system_info", "oauth2_resource_server"}

\* SchemaTransaction::validate_entry
validate_entry(e) == IF e.class \in SchemaClasses THEN "Ok" ELSE "SchemaViolation"

\* SchemaTransaction::normalise_entry: names are stored in lower case
Lower(n) == IF n = "TestPerson" THEN "testperson" ELSE n
normalise_entry(e) == [e EXCEPT !.name = Lower(e.name)]

\* candidates.iter().fold(Ok(()), |acc, e| .. validate_entry(e) ..)
validate_all(s) == \A i \in 1..Len(s) : validate_entry(s[i]) = "Ok"

\* candidates.iter().map(|e| normalise_entry(&e)).collect()
normalise_all(s) == [i \in 1..Len(s) |-> normalise_entry(s[i])]

\* ------------------------------------------------------ Record Store (§6)
\* Filter: Eq(attr, value) | Pres(attr)
f_eq(attr, val) == [kind |-> "eq", attr |-> attr, val |-> val]
f_pres(attr) == [kind |-> "pres", attr |-> attr, val |-> 0]

\* Filter::And(vec![..])
f_and(fs) == [kind |-> "and", attr |-> "", val |-> fs]

\* an attribute no entry carries is present on none and equal to nothing
MatchesTerm(e, f) ==
    CASE f.kind = "pres" -> f.attr \in {"uuid", "name", "class", "description"}
      [] f.attr = "uuid" -> e.uuid = f.val
      [] f.attr = "name" -> e.name = f.val
      [] OTHER -> FALSE

Matches(e, f) ==
    IF f.kind = "and"
    THEN \A i \in 1..Len(f.val) : MatchesTerm(e, f.val[i])
    ELSE MatchesTerm(e, f)

\* Entry::filter_from_attrs(["name", "uuid"])
filter_from_attrs(e) == Some(f_and(<<f_eq("name", e.name), f_eq("uuid", e.uuid)>>))

\* BackendReadTransaction::search
be_search(store, f) == SelectSeq(store, LAMBDA e : Matches(e, f))

\* BackendWriteTransaction::create
be_create(store, entries) ==
    IF entries = <<>>
    THEN [res |-> "EmptyRequest", store |-> store]
    ELSE [res |-> "Ok", store |-> store \o entries]

\* BackendWriteTransaction::modify: the k-th entry matching f becomes new[k]
RECURSIVE be_modify(_, _, _)
be_modify(store, f, new) ==
    IF store = <<>> THEN <<>>
    ELSE IF Matches(Head(store), f)
         THEN <<Head(new)>> \o be_modify(Tail(store), f, Tail(new))
         ELSE <<Head(store)>> \o be_modify(Tail(store), f, new)

\* ---------------------------------------------------------- ModifyList (§6)
m_pres(attr, v) == [op |-> "present", attr |-> attr, val |-> v]
\* Remove names the value by its id (PartialValue::new_refer)
m_remove(attr, id) == [op |-> "remove", attr |-> attr, val |-> [id |-> id]]
\* Value::new_utf8s
m_purge_set(attr, v) == [op |-> "purge_and_set", attr |-> attr, val |-> [utf8 |-> v]]

\* a value set is keyed by the value's id: adding an id already there is a no-op
Insert(set, v) == IF \E x \in set : x.id = v.id THEN set ELSE set \cup {v}
Delete(set, id) == {x \in set : x.id # id}

apply_modify(e, m) ==
    CASE m.op = "present" /\ m.attr = ATTR_SESSION ->
            [e EXCEPT !.sess = Insert(e.sess, m.val)]
      [] m.op = "present" /\ m.attr = ATTR_OAUTH2 ->
            [e EXCEPT !.oa = Insert(e.oa, m.val)]
      [] m.op = "remove" /\ m.attr = ATTR_SESSION ->
            [e EXCEPT !.sess = Delete(e.sess, m.val.id)]
      [] m.op = "remove" /\ m.attr = ATTR_OAUTH2 ->
            [e EXCEPT !.oa = Delete(e.oa, m.val.id)]
      [] m.op = "purge_and_set" /\ m.attr = ATTR_DESC ->
            [e EXCEPT !.description = m.val.utf8]
      [] OTHER -> e

\* the modifications of a modlist apply in the order given
RECURSIVE apply_modlist(_, _)
apply_modlist(e, ml) ==
    IF ml = <<>> THEN e
    ELSE apply_modlist(apply_modify(e, Head(ml)), Tail(ml))

\* ------------------------------------------- Session Consistency Plugin
Expired(v, t) == \E x \in v.expiry : x <= t
HasParent(e, o) == \E s \in e.sess : s.id = o.parent
PastGrace(o, t) == t - o.issued_at >= GRACE_WINDOW

\* a hook that purges every Oauth2Session without a parent, however young
pre_modify_no_grace(cands, ct) ==
    [res |-> "Ok",
     cand |-> [i \in 1..Len(cands) |->
                 [cands[i] EXCEPT !.oa = {o \in @ : HasParent(cands[i], o)}]]]

\* a hook that rejects a modify whose candidates hold an expired value
pre_modify_rejecting(cands, ct) ==
    [res |-> IF \E i \in 1..Len(cands) :
                   \E x \in cands[i].sess \cup cands[i].oa : Expired(x, ct)
             THEN "PluginError" ELSE "Ok",
     cand |-> cands]

\* a hook that drops the expired Session values, and the Oauth2Session
\* values whose parent was already missing when it was called: the children
\* of a Session it drops itself are only found by a second run
pre_modify_one_pass(cands, ct) ==
    [res |-> "Ok",
     cand |-> [i \in 1..Len(cands) |->
                 [cands[i] EXCEPT
                    !.sess = {x \in @ : ~Expired(x, ct)},
                    !.oa = {o \in @ : HasParent(cands[i], o)}]]]

\* a hook that decides expiry by the wall clock at the moment it runs
pre_modify_wallclock(cands, ct) ==
    [res |-> "Ok",
     cand |-> [i \in 1..Len(cands) |->
                 [cands[i] EXCEPT !.sess = {x \in @ : ~Expired(x, clock)}]]]

\* a hook that drops every Session that has an expiry, due or not
pre_modify_eager(cands, ct) ==
    [res |-> "Ok",
     cand |-> [i \in 1..Len(cands) |->
                 [cands[i] EXCEPT !.sess = {x \in @ : x.expiry = None}]]]

\* SessionConsistency::pre_modify: reads the current time and returns Ok(());
\* the loop over the candidates is commented out
pre_modify(cands, ct) == [res |-> "Ok", cand |-> cands]

\* ----------------------------------------------------- Transaction Engine
\* a write transaction whose reads go to the committed store
get_be_txn_committed(store, txn) == store

\* QueryServerWriteTransaction::get_be_txn: &self.be_txn, the transaction's
\* own view; store is the committed Record Store
get_be_txn(store, txn) == txn

\* a read() that looks into the write transactions in flight
read_uncommitted(store, inflight) ==
    IF inflight = {} THEN store ELSE CHOOSE v \in inflight : TRUE

\* QueryServer::read: be.read(), a view of the committed Record Store;
\* inflight are the views of the write transactions that are open
read(store, inflight) == store

\* QueryServerReadTransaction::search: the filter goes to the backend as it
\* is (validating it is a TODO)
search(store, f) == [res |-> "Ok", found |-> be_search(store, f)]

\* QueryServerReadTransaction::exists
exists(store, f) == [res |-> "Ok", found |-> be_search(store, f) # <<>>]

\* the steps of create, in the order of the code: run_pre_create
\* (server.rs:243-249), the validate_entry fold (257-265), the normalise_entry
\* map (274-277), be_txn.create (279-286)
Pipeline == <<"pre_create", "validate", "normalise", "be_create">>

\* what create returns when it stops after its n-th step, be_txn.create not
\* reached
Stopped(res, store, n) ==
    [res |-> res, store |-> store, commit |-> FALSE,
     steps |-> SubSeq(Pipeline, 1, n), handed |-> <<>>]

\* a create that stores the candidates that validate before it reports the
\* one that does not
create_partial(store, entries, plug) ==
    LET good == SelectSeq(entries, LAMBDA e : validate_entry(e) = "Ok")
        r == be_create(store, normalise_all(entries))
    IN  IF plug # "Ok" THEN Stopped(plug, store, 1)
        ELSE IF ~validate_all(entries)
        THEN Stopped("SchemaViolation", store \o normalise_all(good), 2)
        ELSE [res |-> r.res, store |-> r.store, commit |-> FALSE,
              steps |-> Pipeline, handed |-> normalise_all(entries)]

\* a create that commits the Record Store transaction itself
create_autocommit(store, entries, plug) ==
    LET r == be_create(store, normalise_all(entries))
    IN  IF plug # "Ok" THEN Stopped(plug, store, 1)
        ELSE IF ~validate_all(entries)
        THEN Stopped("SchemaViolation", store, 2)
        ELSE [res |-> r.res, store |-> r.store, commit |-> r.res = "Ok",
              steps |-> Pipeline, handed |-> normalise_all(entries)]

\* a create that hands the candidates to the Record Store as they came
create_raw(store, entries, plug) ==
    LET r == be_create(store, entries)
    IN  IF plug # "Ok" THEN Stopped(plug, store, 1)
        ELSE IF ~validate_all(entries)
        THEN Stopped("SchemaViolation", store, 2)
        ELSE [res |-> r.res, store |-> r.store, commit |-> FALSE,
              steps |-> Pipeline, handed |-> entries]

\* QueryServerWriteTransaction::create
\* plug is what Plugins::run_pre_create returned; steps are the steps it
\* went through, handed what it gave to be_txn.create
create(store, entries, plug) ==
    LET candidates == entries
        norm_cand == normalise_all(candidates)
        r == be_create(store, norm_cand)
    IN  IF plug # "Ok" THEN Stopped(plug, store, 1)
        ELSE IF ~validate_all(candidates)
        THEN Stopped("SchemaViolation", store, 2)
        \* server.rs:297-299: the commit is left to the caller
        ELSE [res |-> r.res, store |-> r.store, commit |-> FALSE,
              steps |-> Pipeline, handed |-> norm_cand]

\* a modlist applied with the parentless Oauth2Session values dropped after
\* every single modification
RECURSIVE apply_stepwise(_, _)
apply_stepwise(e, ml) ==
    IF ml = <<>> THEN e
    ELSE LET a == apply_modify(e, Head(ml)) IN
         apply_stepwise([a EXCEPT !.oa = {o \in @ : HasParent(a, o)}], Tail(ml))

\* a modify whose consistency step runs between the modifications of the
\* modlist instead of after the last
modify_stepwise(store, f, modlist, ct) ==
    LET targets == be_search(store, f)
        candidates == [i \in 1..Len(targets) |-> apply_modlist(targets[i], modlist)]
        swept == [i \in 1..Len(targets) |-> apply_stepwise(targets[i], modlist)]
    IN  [res |-> "Ok", store |-> be_modify(store, f, normalise_all(swept)),
         old |-> targets, cand |-> candidates]

\* a modify that, once its targets are stored, drops the expired Session
\* values of every entry of the store
modify_sweep_store(store, f, modlist, ct) ==
    LET targets == be_search(store, f)
        candidates == [i \in 1..Len(targets) |-> apply_modlist(targets[i], modlist)]
        stored == be_modify(store, f, normalise_all(candidates))
    IN  [res |-> "Ok",
         store |-> [j \in 1..Len(stored) |->
                      [stored[j] EXCEPT !.sess = {x \in @ : ~Expired(x, ct)}]],
         old |-> targets, cand |-> candidates]

\* QueryServerWriteTransaction::modify (§4.1)
modify(store, f, modlist, ct) ==
    LET targets == be_search(store, f)
        candidates == [i \in 1..Len(targets) |-> apply_modlist(targets[i], modlist)]
        hook == pre_modify(candidates, ct)
        norm_cand == normalise_all(hook.cand)
    IN  IF hook.res # "Ok"
        THEN [res |-> hook.res, store |-> store,
              old |-> targets, cand |-> candidates]
        ELSE IF ~validate_all(hook.cand)
        THEN [res |-> "SchemaViolation", store |-> store,
              old |-> targets, cand |-> candidates]
        ELSE [res |-> "Ok", store |-> be_modify(store, f, norm_cand),
              old |-> targets, cand |-> candidates]

\* a commit that commits the Record Store before it looks at the validation
commit_before_validate(v, b, s) ==
    [res |-> IF v # "Ok" THEN "Err" ELSE IF s = "Ok" THEN "Ok" ELSE "panic",
     be_commit |-> TRUE, schema_commit |-> v = "Ok"]

\* a commit that reports a failed schema.commit() as an ordinary error
commit_recoverable(v, b, s) ==
    IF v # "Ok"
    THEN [res |-> "Err", be_commit |-> FALSE, schema_commit |-> FALSE]
    ELSE [res |-> IF s = "Ok" THEN "Ok" ELSE "Err",
          be_commit |-> TRUE, schema_commit |-> TRUE]

\* QueryServerWriteTransaction::commit
\* v is what schema.validate returned, b what be_txn.commit returned.
\* Result::map runs its closure on every Ok and wraps what the closure
\* returns in Ok again, so b never reaches the caller.
\* s is how schema.commit() ended: it returns (), so it has no error to
\* report; a failure inside it is a panic, which unwinds through commit().
commit(v, b, s) ==
    IF v # "Ok"
    THEN [res |-> "Err", be_commit |-> FALSE, schema_commit |-> FALSE]
    ELSE [res |-> IF s = "Ok" THEN "Ok" ELSE "panic",
          be_commit |-> TRUE, schema_commit |-> TRUE]

\* internal_exists: exists() over the transaction's view
internal_exists(store, f) == exists(store, f)

\* internal_create: create() with an internal CreateEvent
internal_create(store, entries, plug) == create(store, entries, plug)

\* internal_assert_or_create: Ok(true) => unimplemented!(), a panic
internal_assert_or_create(store, e, plug) ==
    LET filt == filter_from_attrs(e) IN
    IF filt = None THEN [res |-> "FilterGeneration", store |-> store, commit |-> FALSE]
    ELSE LET x == internal_exists(store, CHOOSE f \in filt : TRUE) IN
         IF x.res # "Ok" THEN [res |-> x.res, store |-> store, commit |-> FALSE]
         ELSE IF x.found THEN [res |-> "panic", store |-> store, commit |-> FALSE]
         ELSE internal_create(store, <<e>>, plug)

\* internal_migrate_or_create: the same steps, the same unimplemented!()
internal_migrate_or_create(store, e, plug) ==
    LET filt == filter_from_attrs(e) IN
    IF filt = None THEN [res |-> "FilterGeneration", store |-> store, commit |-> FALSE]
    ELSE LET x == internal_exists(store, CHOOSE f \in filt : TRUE) IN
         IF x.res # "Ok" THEN [res |-> x.res, store |-> store, commit |-> FALSE]
         ELSE IF x.found THEN [res |-> "panic", store |-> store, commit |-> FALSE]
         ELSE internal_create(store, <<e>>, plug)

\* JSON_SYSTEM_INFO_V1 and JSON_ANONYMOUS_V1
SystemInfo == NewEntry(3, "system_info", "system_info")
Anonymous == NewEntry(4, "account", "anonymous")

\* QueryServerWriteTransaction::initialise
\* p1 and p2 are what run_pre_create returned in the two internal creates
initialise(store, p1, p2) ==
    LET res == internal_assert_or_create(store, SystemInfo, p1) IN
    IF res.res # "Ok" THEN res
    ELSE internal_migrate_or_create(res.store, Anonymous, p2)

\* ------------------------------------------------------------- inputs
Results == {"Ok", "Err"}


ExpiryChoices(ct) == {None, Some(ct + MaxLife)}

ModOps(ct) ==
    {m_purge_set(ATTR_DESC, 1)}
    \cup {m_pres(ATTR_SESSION, SessionValue(i, x, ct)) :
            i \in SessionIds, x \in ExpiryChoices(ct)}
    \cup {m_pres(ATTR_OAUTH2, Oauth2Value(i, p, x, ct)) :
            i \in Oauth2Ids, p \in ParentIds, x \in ExpiryChoices(ct)}
    \cup {m_remove(ATTR_SESSION, i) : i \in SessionIds}
    \cup {m_remove(ATTR_OAUTH2, i) : i \in Oauth2Ids}

\* every single modification, and an Oauth2Session added before a Session
ModLists(ct) ==
    {<<a>> : a \in ModOps(ct)}
    \cup {<<m_pres(ATTR_OAUTH2, Oauth2Value(i, p, x, ct)),
            m_pres(ATTR_SESSION, SessionValue(p, None, ct))>> :
            i \in Oauth2Ids, p \in SessionIds, x \in ExpiryChoices(ct)}

\* e2 of the tests: an entry no modify targets.  It is given a Session that
\* expires at tick 1 and an Oauth2Session without a parent, so that there is
\* something on it a sweep could take.
ResourceServer ==
    [NewEntry(2, "oauth2_resource_server", "test_resource_server") EXCEPT
        !.sess = {SessionValue(1, Some(1), 0)},
        !.oa = {Oauth2Value(1, 2, None, 0)}]

CreateBatches(ct) ==
    { <<>>,
      <<NewEntry(1, "person", "testperson")>>,
      <<ResourceServer>>,
      <<NewEntry(1, "person", "testperson"), ResourceServer>>,
      <<NewEntry(1, "person", "TestPerson")>>,
      <<NewEntry(1, "bogus", "testperson")>>,
      <<ResourceServer, NewEntry(1, "bogus", "testperson")>>,
      <<NewEntryWithSession(1, SessionValue(1, Some(ct + MaxLife), ct))>> }

\* the callers create no second entry under a uuid the view already holds
FreshUuids(store, entries) ==
    \A i \in 1..Len(entries) : \A j \in 1..Len(store) :
        entries[i].uuid # store[j].uuid

\* attributes the schema knows
SchemaAttributes ==
    {"uuid", "name", "class", "description", ATTR_SESSION, ATTR_OAUTH2}

\* Pres("name") of test_be_create_user, and a filter on an attribute that
\* is not in the schema
SearchFilters == {f_pres("name"), f_pres("nonexistent")}

NoFilter == f_pres("class")
\* last: op and res are the call and its result; filter its filter; found what
\* a search returned; old the entries a modify resolved its filter to; cand
\* those entries with the modlist applied, as handed to the pre_modify hooks
Ret(op, res) ==
    [op |-> op, res |-> res, filter |-> NoFilter, found |-> <<>>,
     old |-> <<>>, cand |-> <<>>]

\* fin: how is "none" (a transaction is open, or none was), "commit" or
\* "drop"; v and b are what schema.validate and be_txn.commit returned
\* ("-" when not called); res is what commit() returned
Fin(how, v, b, res) == [how |-> how, v |-> v, b |-> b, res |-> res]
NoFin == Fin("none", "-", "-", "-")

\* ---------------------------------------------------------------- Init
Init ==
    /\ clock = 0
    /\ be = <<>>
    /\ wopen = FALSE
    /\ committed = FALSE
    /\ curtime = 0
    /\ be_txn = <<>>
    /\ be_stat = "none"
    /\ schema_stat = "none"
    /\ pre = <<>>
    /\ touched = {}
    /\ fin = NoFin
    /\ last = Ret("new", "Ok")
    /\ nops = 0
    /\ pc = [w \in Workers |-> "idle"]
    /\ be_writers = {}
    /\ schema_writers = {}
    /\ view = [w \in Workers |-> <<>>]
    /\ snap = [w \in Workers |-> <<>>]
    /\ ret = [w \in Workers |-> Ret("new", "Ok")]

\* ------------------------------------------------------------- actions
\* the wall clock advances, also while a transaction is open
Tick ==
    /\ clock < MaxTime
    /\ clock' = clock + 1
    /\ UNCHANGED <<be, wopen, committed, curtime, be_txn, be_stat, schema_stat,
                   pre, touched, fin, last, nops>>
    /\ UNCHANGED worker_vars

\* QueryServer::write (server.write(curtime) in session.rs)
Write ==
    /\ ~wopen
    /\ wopen' = TRUE
    /\ committed' = FALSE
    /\ curtime' = clock
    /\ be_txn' = be
    /\ be_stat' = "open"
    /\ schema_stat' = "open"
    /\ pre' = be
    /\ touched' = {}
    /\ fin' = NoFin
    /\ last' = Ret("write", "Ok")
    /\ nops' = 0
    /\ UNCHANGED <<clock, be>>
    /\ UNCHANGED worker_vars

Create ==
    /\ wopen
    /\ nops < MaxOps
    /\ \E entries \in CreateBatches(curtime), plug \in Results :
         LET r == create(be_txn, entries, plug) IN
         /\ FreshUuids(be_txn, entries)
         /\ be_txn' = r.store
         /\ be' = IF r.commit THEN r.store ELSE be
         /\ last' = Ret("create", r.res)
    /\ nops' = nops + 1
    /\ UNCHANGED <<clock, wopen, committed, curtime, be_stat, schema_stat, pre,
                   touched, fin>>
    /\ UNCHANGED worker_vars

Modify ==
    /\ wopen
    /\ nops < MaxOps
    /\ \E u \in UserIds, ml \in ModLists(curtime) :
         LET f == f_eq("uuid", u)
             r == modify(be_txn, f, ml, curtime) IN
         /\ be_txn' = r.store
         /\ touched' = IF r.res = "Ok" THEN touched \cup {u} ELSE touched
         /\ last' = [op |-> "modify", res |-> r.res, filter |-> f,
                     found |-> <<>>, old |-> r.old, cand |-> r.cand]
    /\ nops' = nops + 1
    /\ UNCHANGED <<clock, be, wopen, committed, curtime, be_stat, schema_stat,
                   pre, fin>>
    /\ UNCHANGED worker_vars

\* a commit(&self) that leaves the transaction object with its caller
CommitStep_by_ref(s) ==
    /\ be_stat # "none"
    /\ ~committed
    /\ \E v \in Results, b \in Results :
         LET r == commit(v, b, s) IN
         /\ be_stat' = IF ~r.be_commit THEN "dropped"
                       ELSE IF b = "Ok" THEN "committed" ELSE "failed"
         /\ be' = IF r.be_commit /\ b = "Ok" THEN be_txn ELSE be
         /\ schema_stat' = IF ~r.schema_commit THEN "dropped"
                           ELSE IF s = "Ok" THEN "committed" ELSE "failed"
         /\ fin' = Fin("commit", v, IF r.be_commit THEN b ELSE "-", r.res)
         /\ last' = Ret("commit", r.res)
    /\ wopen' = FALSE
    /\ UNCHANGED <<clock, committed, curtime, be_txn, pre, touched, nops>>
    /\ UNCHANGED worker_vars

\* commit(self) with schema.commit() ending as s; self is moved into the
\* call, so the transaction is gone when it returns
CommitStep(s) ==
    /\ wopen
    /\ ~committed    \* assert!(!committed)
    /\ \E v \in Results, b \in Results :
         LET r == commit(v, b, s) IN
         /\ be_stat' = IF ~r.be_commit THEN "dropped"
                       ELSE IF b = "Ok" THEN "committed" ELSE "failed"
         /\ be' = IF r.be_commit /\ b = "Ok" THEN be_txn ELSE be
         /\ schema_stat' = IF ~r.schema_commit THEN "dropped"
                           ELSE IF s = "Ok" THEN "committed" ELSE "failed"
         /\ fin' = Fin("commit", v, IF r.be_commit THEN b ELSE "-", r.res)
         /\ last' = Ret("commit", r.res)
    /\ wopen' = FALSE
    /\ UNCHANGED <<clock, committed, curtime, be_txn, pre, touched, nops>>
    /\ UNCHANGED worker_vars

\* commit() in which schema.commit() returns
Commit ==
    /\ CommitStep("Ok")
    /\ schema_stat' # "failed"

\* commit() in which validation passes and schema.commit() panics
CommitPanic ==
    /\ CommitStep("panic")
    /\ schema_stat' = "failed"

\* the write transaction is dropped without commit
Abort ==
    /\ wopen
    /\ wopen' = FALSE
    /\ be_stat' = "dropped"
    /\ schema_stat' = "dropped"
    /\ fin' = Fin("drop", "-", "-", "-")
    /\ last' = Ret("abort", "Ok")
    /\ UNCHANGED <<clock, be, committed, curtime, be_txn, pre, touched, nops>>
    /\ UNCHANGED worker_vars

\* Handler<SearchEvent>::handle: read(), then search
HandleSearch ==
    /\ \E f \in {f_pres("name")} :
         last' = [op |-> "search", res |-> "Ok", filter |-> f,
                  found |-> be_search(be, f), old |-> <<>>, cand |-> <<>>]
    /\ UNCHANGED <<clock, be, wopen, committed, curtime, be_txn, be_stat,
                   schema_stat, pre, touched, fin, nops>>
    /\ UNCHANGED worker_vars

\* search on the open write transaction
TxnSearch ==
    /\ wopen
    /\ \E f \in SearchFilters :
         LET r == search(get_be_txn(be, be_txn), f) IN
         last' = [op |-> "txn_search", res |-> r.res, filter |-> f,
                  found |-> r.found, old |-> <<>>, cand |-> <<>>]
    /\ UNCHANGED <<clock, be, wopen, committed, curtime, be_txn, be_stat,
                   schema_stat, pre, touched, fin, nops>>
    /\ UNCHANGED worker_vars

\* Handler<CreateEvent>::handle: write(), create, and on Ok a commit whose
\* result is dropped
HandleCreate ==
    /\ ~wopen
    /\ \E entries \in CreateBatches(clock), plug \in Results,
          v \in Results, b \in Results :
         LET c == create(be, entries, plug)
             m == commit(v, b, "Ok") IN
         /\ FreshUuids(be, entries)
         /\ be_txn' = c.store
         /\ be_stat' = IF c.res # "Ok" \/ ~m.be_commit THEN "dropped"
                       ELSE IF b = "Ok" THEN "committed" ELSE "failed"
         /\ be' = IF c.res = "Ok" /\ m.be_commit /\ b = "Ok" THEN c.store ELSE be
         /\ schema_stat' = IF c.res = "Ok" /\ m.schema_commit
                           THEN "committed" ELSE "dropped"
         /\ fin' = IF c.res # "Ok" THEN Fin("drop", "-", "-", "-")
                   ELSE Fin("commit", v, IF m.be_commit THEN b ELSE "-", m.res)
         /\ last' = [op |-> "handle_create", res |-> c.res,
                     filter |-> NoFilter, found |-> <<>>, old |-> <<>>,
                     cand |-> entries, steps |-> c.steps, handed |-> c.handed]
    /\ committed' = FALSE
    /\ curtime' = clock
    /\ pre' = be
    /\ touched' = {}
    /\ nops' = 0
    /\ UNCHANGED <<clock, wopen>>
    /\ UNCHANGED worker_vars

\* initialise() on the open write transaction; an unimplemented!() unwinds
\* and drops the transaction
Initialise ==
    /\ wopen
    /\ nops < MaxOps
    /\ \E p1 \in Results, p2 \in Results :
         LET r == initialise(be_txn, p1, p2) IN
         /\ be_txn' = r.store
         /\ last' = Ret("initialise", r.res)
         /\ wopen' = (r.res # "panic")
         /\ be_stat' = IF r.res = "panic" THEN "dropped" ELSE be_stat
         /\ schema_stat' = IF r.res = "panic" THEN "dropped" ELSE schema_stat
         /\ fin' = IF r.res = "panic" THEN Fin("drop", "-", "-", "-") ELSE fin
    /\ nops' = nops + 1
    /\ UNCHANGED <<clock, be, committed, curtime, pre, touched>>
    /\ UNCHANGED worker_vars

\* start(), before any worker exists: the bootstrap block commits an empty
\* Record Store transaction (server.rs:33-58); then write(), initialise(),
\* whose result is not looked at, and commit(), whose result is not looked
\* at either (server.rs:60-68)
Start ==
    /\ last.op = "new"
    /\ ~wopen
    /\ \E p1 \in Results, p2 \in Results, v \in Results, b \in Results :
         LET r == initialise(be, p1, p2)
             m == commit(v, b, "Ok") IN
         /\ be_txn' = r.store
         /\ be_stat' = IF ~m.be_commit THEN "dropped"
                       ELSE IF b = "Ok" THEN "committed" ELSE "failed"
         /\ be' = IF m.be_commit /\ b = "Ok" THEN r.store ELSE be
         /\ schema_stat' = IF m.schema_commit THEN "committed" ELSE "dropped"
         /\ fin' = Fin("commit", v, IF m.be_commit THEN b ELSE "-", m.res)
         /\ last' = Ret("start", r.res)
    /\ committed' = FALSE
    /\ curtime' = clock
    /\ pre' = be
    /\ touched' = {}
    /\ nops' = 0
    /\ UNCHANGED <<clock, wopen>>
    /\ UNCHANGED worker_vars

Next ==
    \/ Tick
    \/ Write
    \/ Create
    \/ Modify
    \/ Commit
    \/ Abort
    \/ HandleSearch

Spec == Init /\ [][Next]_vars

\* the engine of server.rs alone: no clock, no modify
EngineNext ==
    \/ Start
    \/ Write
    \/ Create
    \/ TxnSearch
    \/ Initialise
    \/ Commit
    \/ CommitPanic
    \/ HandleCreate
    \/ Abort
    \/ HandleSearch

EngineSpec == Init /\ [][EngineNext]_vars

\* ------------------------------------------------ the workers of start()
\* a write() that takes the Schema Store write view first in worker 2
write_order_mixed(w) ==
    IF w = 1 THEN <<"be", "schema">> ELSE <<"schema", "be">>

\* QueryServer::write: the struct literal evaluates be_txn: self.be.write()
\* before schema: self.schema.write() (server.rs:218-219), in every worker;
\* the bootstrap block of start() takes them in the same order
\* (server.rs:35-36)
write_order(w) == <<"be", "schema">>

\* no worker holds lock l
Free(l) == IF l = "be" THEN be_writers = {} ELSE schema_writers = {}

\* worker w gets lock l
Take(l, w) ==
    /\ be_writers' = IF l = "be" THEN be_writers \cup {w} ELSE be_writers
    /\ schema_writers' =
          IF l = "schema" THEN schema_writers \cup {w} ELSE schema_writers

\* Handler<CreateEvent>::handle is called with a message
ReceiveCreate(w) ==
    /\ pc[w] = "idle"
    /\ pc' = [pc EXCEPT ![w] = "handle_create"]
    /\ UNCHANGED <<be, be_writers, schema_writers, view, snap, ret, txn_vars>>

\* a worker that takes a Record Store write transaction while another holds one
BeginCreate_shared(w) ==
    /\ pc[w] = "handle_create"
    /\ Take(write_order(w)[1], w)
    /\ view' = [view EXCEPT ![w] = be]
    /\ snap' = [snap EXCEPT ![w] = be]
    /\ pc' = [pc EXCEPT ![w] = "be_write"]
    /\ UNCHANGED <<be, ret, txn_vars>>

\* the first half of self.write(): be.write() waits until no other Record
\* Store write transaction is open
BeginCreate(w) ==
    /\ pc[w] = "handle_create"
    /\ Free(write_order(w)[1])
    /\ Take(write_order(w)[1], w)
    /\ view' = [view EXCEPT ![w] = be]
    /\ snap' = [snap EXCEPT ![w] = be]
    /\ pc' = [pc EXCEPT ![w] = "be_write"]
    /\ UNCHANGED <<be, ret, txn_vars>>

\* the second half of self.write(): schema.write() waits until no other
\* Schema Store write view is open
SchemaWrite(w) ==
    /\ pc[w] = "be_write"
    /\ Free(write_order(w)[2])
    /\ Take(write_order(w)[2], w)
    /\ pc' = [pc EXCEPT ![w] = "write"]
    /\ UNCHANGED <<be, view, snap, ret, txn_vars>>

\* qs_write.create(&mut audit, &msg); on Err the handler returns it and the
\* transaction is dropped
WorkerCreate(w) ==
    /\ pc[w] = "write"
    /\ \E entries \in CreateBatches(clock), plug \in Results :
         LET r == create(view[w], entries, plug) IN
         /\ FreshUuids(view[w], entries)
         /\ view' = [view EXCEPT ![w] = r.store]
         /\ IF r.res = "Ok"
            THEN /\ pc' = [pc EXCEPT ![w] = "created"]
                 /\ UNCHANGED <<be_writers, schema_writers, ret>>
            ELSE /\ pc' = [pc EXCEPT ![w] = "idle"]
                 /\ be_writers' = be_writers \ {w}
                 /\ schema_writers' = schema_writers \ {w}
                 /\ ret' = [ret EXCEPT ![w] = Ret("handle_create", r.res)]
    /\ UNCHANGED <<be, snap, txn_vars>>

\* qs_write.commit(&mut audit); Ok(OpResult {})
WorkerCommit(w) ==
    /\ pc[w] = "created"
    /\ \E v \in Results, b \in Results :
         LET r == commit(v, b, "Ok") IN
         be' = IF r.be_commit /\ b = "Ok" THEN view[w] ELSE be
    /\ pc' = [pc EXCEPT ![w] = "idle"]
    /\ be_writers' = be_writers \ {w}
    /\ schema_writers' = schema_writers \ {w}
    /\ ret' = [ret EXCEPT ![w] = Ret("handle_create", "Ok")]
    /\ UNCHANGED <<view, snap, txn_vars>>

\* Handler<SearchEvent>::handle, to self.read(): no lock is waited for
BeginSearch(w) ==
    /\ pc[w] = "idle"
    /\ view' = [view EXCEPT ![w] =
                  read(be, {view[x] : x \in {y \in Workers : pc[y] = "created"}})]
    /\ snap' = [snap EXCEPT ![w] = be]
    /\ pc' = [pc EXCEPT ![w] = "read"]
    /\ UNCHANGED <<be, be_writers, schema_writers, ret, txn_vars>>

\* qs_read.search(&mut audit, &msg), and the read transaction is dropped
WorkerSearch(w) ==
    /\ pc[w] = "read"
    /\ \E f \in {f_pres("name")} :
         LET r == search(view[w], f) IN
         ret' = [ret EXCEPT ![w] =
                   [op |-> "search", res |-> r.res, filter |-> f,
                    found |-> r.found, old |-> <<>>, cand |-> <<>>]]
    /\ pc' = [pc EXCEPT ![w] = "idle"]
    /\ UNCHANGED <<be, be_writers, schema_writers, view, snap, txn_vars>>

WorkerNext ==
    \E w \in Workers :
        \/ ReceiveCreate(w)
        \/ BeginCreate(w)
        \/ SchemaWrite(w)
        \/ WorkerCreate(w)
        \/ WorkerCommit(w)
        \/ BeginSearch(w)
        \/ WorkerSearch(w)

WorkerSpec == Init /\ [][WorkerNext]_vars

\* a handler that can go on does: a worker thread that is not blocked runs.
\* be.write() is a blocking acquisition: a worker waiting in it gets the
\* Record Store write transaction once it has been free often enough.
\* Messages need not arrive, and no search need be made.
WorkerFairness ==
    \A w \in Workers :
        /\ SF_vars(BeginCreate(w))
        /\ WF_vars(SchemaWrite(w))
        /\ WF_vars(WorkerCreate(w))
        /\ WF_vars(WorkerCommit(w))

WorkerFairSpec == Init /\ [][WorkerNext]_vars /\ WorkerFairness

\* ======================================================================
\* Properties
\* ======================================================================
\* the last call was a modify that returned Ok, in the open transaction
AfterModify == wopen /\ last.op = "modify" /\ last.res = "Ok"
\* the entries that modify targeted, as the transaction's view now holds them
After == be_search(be_txn, last.filter)
\* a write transaction has committed the Record Store and none is open since
Committed == ~wopen /\ fin.how = "commit" /\ be_stat = "committed"
Ids(set) == {x.id : x \in set}

\* C1: after a modify at current time t, no Session value of a targeted
\* entry has an expiry that is set and <= t.
C1_SessionExpirySweep ==
    AfterModify =>
        \A i \in 1..Len(After) : \A s \in After[i].sess : ~Expired(s, curtime)

\* C2: when a modify removes Session P from an entry, no Oauth2Session of
\* that entry with parent P is left after that modify.
C2_CascadeOnRemoval ==
    AfterModify =>
        \A i \in 1..Len(After) :
            \A p \in Ids(last.old[i].sess) \ Ids(last.cand[i].sess) :
                \A o \in After[i].oa : o.parent # p

\* C3: after a modify at current time t, no Oauth2Session value of a
\* targeted entry has an expiry that is set and <= t, and every Session
\* that is not expired is still on the entry.
C3_Oauth2ExpirySweep ==
    AfterModify =>
        \A i \in 1..Len(After) :
            /\ \A o \in After[i].oa : ~Expired(o, curtime)
            /\ \A s \in last.cand[i].sess :
                   ~Expired(s, curtime) => s \in After[i].sess

\* C4: after a modify at current time t, an Oauth2Session without expiry
\* whose parent is no Session of the entry and with
\* t - issued_at >= GRACE_WINDOW is gone.
C4_GraceWindowPurge ==
    AfterModify =>
        \A i \in 1..Len(After) : \A o \in last.cand[i].oa :
            (o.expiry = None /\ ~HasParent(last.cand[i], o)
                /\ PastGrace(o, curtime))
            => o \notin After[i].oa

\* the Oauth2Session values of candidate i that have no parent, are not
\* expired and are younger than the grace window
YoungOrphans(i) ==
    {o \in last.cand[i].oa :
        ~HasParent(last.cand[i], o) /\ ~Expired(o, curtime)
            /\ ~PastGrace(o, curtime)}

C6_ParentInvariant ==
    Committed =>
        \A i \in 1..Len(be) : be[i].uuid \in touched =>
            \A o \in be[i].oa : HasParent(be[i], o) \/ ~PastGrace(o, curtime)

\* C7: once a write transaction with current time t has committed, no
\* entry it modified carries a Session or Oauth2Session whose expiry is
\* set and <= t.
C7_ExpiryInvariant ==
    Committed =>
        \A i \in 1..Len(be) : be[i].uuid \in touched =>
            \A x \in be[i].sess \cup be[i].oa : ~Expired(x, curtime)

\* C8: the Schema Store view is committed only when the Record Store
\* commit has succeeded.
C8_CommitOrdering == schema_stat = "committed" => be_stat = "committed"

\* C9: when schema validation fails inside commit(), neither store is
\* committed, commit() returns an error, and the Record Store, as a later
\* read sees it, is as it was before the write transaction began.
C9_ValidationFailure ==
    (~wopen /\ fin.how = "commit" /\ fin.v # "Ok") =>
        /\ fin.res = "Err"
        /\ be_stat # "committed"
        /\ schema_stat # "committed"
        /\ be = pre
        /\ last.op = "search" => last.found = be_search(pre, last.filter)

C9_Witness ==
    /\ ~wopen /\ fin.how = "commit" /\ fin.v = "Err"
    /\ be_txn # pre
    /\ last.op = "search"

\* C10: a write transaction dropped without commit leaves both stores as
\* they were before it began: neither was committed, and a later read and
\* the next write transaction see none of its entries.
C10_AbortNoTrace ==
    /\ (~wopen /\ fin.how = "drop") =>
           /\ be_stat = "dropped"
           /\ schema_stat = "dropped"
           /\ be = pre
           /\ last.op = "search" => last.found = be_search(pre, last.filter)
    /\ (wopen /\ last.op = "write") => be_txn = be /\ be = pre

C10_Witness ==
    /\ ~wopen /\ fin.how = "drop"
    /\ Len(be_txn) > Len(pre)
    /\ last.op = "search"

\* C11: every initialise call returns without a panic, the second call on
\* a store that already holds the bootstrap entries included, and the store
\* never holds two copies of system_info or of anonymous.
C11_InitialiseIdempotent ==
    /\ last.op = "initialise" => last.res # "panic"
    /\ \A e \in {SystemInfo, Anonymous} :
           Len(be_search(be, f_eq("uuid", e.uuid))) <= 1

\* C12: a create that returns an error, whether a pre_create hook or the
\* validation of one candidate failed, leaves the transaction's view and the
\* committed store as they were: no entry of the batch reaches either.
C12_CreateAllOrNothing ==
    [][(last'.op = "create" /\ last'.res # "Ok") =>
           (be_txn' = be_txn /\ be' = be)]_vars

C12_Witness ==
    /\ wopen /\ last.op = "create" /\ last.res = "SchemaViolation"
    /\ be_txn # <<>> /\ be_txn # be

\* C13: the handler of a create event returns a success only if create
\* and the commit after it both succeeded and the entries are persisted.
C13_ErrorsReachCaller ==
    (last.op = "handle_create" /\ last.res = "Ok") =>
        /\ fin.res = "Ok"
        /\ be_stat = "committed"
        /\ be = be_txn

\* C14: a search whose filter names an attribute unknown to the schema
\* returns an error.
C14_ReadsFailClosed ==
    (last.op \in {"search", "txn_search"}
        /\ last.filter.attr \notin SchemaAttributes) => last.res # "Ok"

\* C17: a search on a write transaction reads the transaction's own view:
\* it returns the entries the creates of the transaction stored (in their
\* normalised form) next to those committed before, and with Pres("name")
\* on a store that was empty when the transaction began exactly the
\* created entries.
C17_ReadYourWrites ==
    (wopen /\ last.op = "txn_search") =>
        /\ last.found = be_search(be_txn, last.filter)
        /\ (pre = <<>> /\ last.filter = f_pres("name")) => last.found = be_txn

C17_Witness ==
    /\ wopen /\ last.op = "txn_search" /\ last.filter = f_pres("name")
    /\ pre = <<>> /\ be = <<>>
    /\ Len(last.found) = 2

\* C18: once commit() was invoked on a write transaction, whether it
\* succeeded or failed, no commit, create, initialise, modify or search
\* runs on that transaction again; and the committed flag of an open
\* transaction, on which commit() can start, is false.
C18_CommitAtMostOnce ==
    /\ [][(~wopen /\ last' # last) =>
             last'.op \notin {"commit", "create", "initialise", "modify",
                              "txn_search", "abort"}]_vars
    /\ [](wopen => ~committed)

C18_Witness ==
    /\ ~wopen /\ fin.how = "commit" /\ fin.res = "Err"
    /\ last.op = "search"

C20_HookNeverFails ==
    (wopen /\ last.op = "modify") =>
        /\ pre_modify(last.cand, curtime).res = "Ok"
        /\ last.res = "Ok"

C20_Witness ==
    /\ wopen /\ last.op = "modify" /\ last.cand # <<>>
    /\ \E x \in last.cand[1].sess : Expired(x, curtime)

\* workers whose handler holds a write transaction, or is taking one
Writers == {w \in Workers : pc[w] \in {"be_write", "write", "created"}}

\* C15: at most one worker holds a write transaction at any time, from
\* write() to its commit or drop; while it holds it no other commit changes
\* the committed store, so its view is that store followed by its own
\* candidates and the commits are totally ordered.
C15_WriteExclusivity ==
    /\ Cardinality(Writers) <= 1
    /\ Cardinality(be_writers) <= 1
    /\ \A w \in Writers :
          /\ be_writers = {w}
          /\ be = snap[w]
          /\ SubSeq(view[w], 1, Len(be)) = be

C15_Witness ==
    \E w \in Workers, x \in Workers :
        /\ pc[w] = "created" /\ view[w] # be
        /\ pc[x] = "idle" /\ ret[x].op = "handle_create"
        /\ be # <<>>

\* C16: a read transaction can be opened whatever the writers do, and its
\* search returns what the Record Store held committed when it was opened:
\* nothing of a write transaction that had not committed by then.
C16_SnapshotIsolation ==
    \A w \in Workers :
        /\ pc[w] = "idle" => ENABLED BeginSearch(w)
        /\ pc[w] = "read" => view[w] = snap[w]
        /\ (pc[w] = "idle" /\ ret[w].op = "search") =>
               ret[w].found = be_search(snap[w], ret[w].filter)

C16_Witness ==
    \E w \in Workers, x \in Workers :
        /\ pc[w] = "created" /\ view[w] # be
        /\ pc[x] = "idle" /\ ret[x].op = "search"
        /\ snap[x] = be /\ Len(ret[x].found) < Len(view[w])

\* what the hook makes of the candidates of the last modify
Hooked == pre_modify(last.cand, curtime).cand

\* C21: running the pre_modify hook again, with the same current time, on
\* the candidates a first run produced changes no Session and no
\* Oauth2Session value of any candidate.
C21_HookIdempotence ==
    (wopen /\ last.op = "modify") =>
        LET again == pre_modify(Hooked, curtime) IN
        /\ again.res = "Ok"
        /\ \A i \in 1..Len(Hooked) :
              /\ again.cand[i].sess = Hooked[i].sess
              /\ again.cand[i].oa = Hooked[i].oa

\* a candidate with an expired Session and an Oauth2Session under it
C21_Witness ==
    /\ wopen /\ last.op = "modify" /\ last.cand # <<>>
    /\ \E x \in last.cand[1].sess : \E o \in last.cand[1].oa :
          Expired(x, curtime) /\ o.parent = x.id

C23_CascadeOnExpiry ==
    AfterModify =>
        \A i \in 1..Len(After) : \A p \in last.cand[i].sess :
            Expired(p, curtime) =>
                /\ p \notin After[i].sess
                /\ \A o \in After[i].oa : o.parent # p.id

\* C24: a modify at current time t leaves on its targets, unchanged, every
\* Session of the candidates whose expiry is unset or > t, and every
\* Oauth2Session whose expiry is unset or > t and whose parent Session is
\* on the entry after the modify.
C24_LiveSessionsLeftAlone ==
    AfterModify =>
        \A i \in 1..Len(After) :
            /\ \A x \in last.cand[i].sess :
                  ~Expired(x, curtime) => x \in After[i].sess
            /\ \A o \in last.cand[i].oa :
                  (~Expired(o, curtime) /\ HasParent(After[i], o))
                      => o \in After[i].oa

\* a live Session with an expiry still to come, and a live Oauth2Session
\* under it, at a time after both were issued
C24_Witness ==
    /\ AfterModify /\ last.cand # <<>>
    /\ curtime > 0
    /\ \E x \in last.cand[1].sess : \E o \in last.cand[1].oa :
          /\ x.expiry # None /\ ~Expired(x, curtime) /\ x.issued_at < curtime
          /\ o.parent = x.id /\ ~Expired(o, curtime)
          /\ x \in After[1].sess /\ o \in After[1].oa

\* the values candidate i holds that the entry did not hold before the modify
NewSessions(i) == last.cand[i].sess \ last.old[i].sess
NewOauth2(i) == last.cand[i].oa \ last.old[i].oa

\* C25: when one modlist adds an Oauth2Session and its parent Session, both
\* unexpired, both are on the entry after the modify, in whichever order
\* the modlist names them.
C25_OrderTolerance ==
    AfterModify =>
        \A i \in 1..Len(After) : \A o \in NewOauth2(i) : \A x \in NewSessions(i) :
            (o.parent = x.id /\ ~Expired(o, curtime) /\ ~Expired(x, curtime))
                => (o \in After[i].oa /\ x \in After[i].sess)

C25_Witness ==
    /\ AfterModify /\ last.cand # <<>>
    /\ \E o \in NewOauth2(1) : \E x \in NewSessions(1) :
          o.parent = x.id /\ o \in After[1].oa /\ x \in After[1].sess

\* C26: an entry that no modify of the write transaction targeted is, in
\* the transaction's view, as it was when the transaction began; and an
\* entry no modify ever targets is in the committed store as it was created,
\* its expired and its parentless values included, whatever was committed
\* on other entries and however far the clock has advanced.
C26_LazySweepOnly ==
    /\ \A i \in 1..Len(pre) : pre[i].uuid \notin touched =>
           (i <= Len(be_txn) /\ be_txn[i] = pre[i])
    /\ \A i \in 1..Len(be) : be[i].uuid \notin UserIds =>
           (be[i].sess = ResourceServer.sess /\ be[i].oa = ResourceServer.oa)

\* a transaction that modified another entry has committed at a time when
\* the untargeted entry's Session is expired and its Oauth2Session is
\* parentless and past the grace window
C26_Witness ==
    /\ Committed /\ touched = UserIds
    /\ \E i \in 1..Len(pre) : \E j \in 1..Len(be) :
          /\ pre[i].uuid \notin UserIds /\ be[j] = pre[i]
          /\ \E x \in be[j].sess : Expired(x, curtime)
          /\ \E o \in be[j].oa : ~HasParent(be[j], o) /\ PastGrace(o, curtime)

\* C27: create goes through its steps in the order pre_create hooks,
\* validation of every candidate, normalisation, Record Store create; it
\* reaches the Record Store exactly when no hook and no validation failed,
\* and hands it the normalised form of candidates that all validate.
C27_CreatePipelineOrder ==
    last.op = "handle_create" =>
        LET n == Len(last.steps) IN
        /\ n >= 1 /\ last.steps = SubSeq(Pipeline, 1, n)
        /\ (n = Len(Pipeline)) <=> (last.res \notin {"Err", "SchemaViolation"})
        /\ ~validate_all(last.cand) => n <= 2
        /\ n = Len(Pipeline) =>
              /\ validate_all(last.cand)
              /\ last.handed = normalise_all(last.cand)
        /\ n < Len(Pipeline) => (last.handed = <<>> /\ be_txn = pre)

\* a create that reached the Record Store with candidates that
\* normalisation changed
C27_Witness ==
    /\ last.op = "handle_create" /\ last.res = "Ok"
    /\ last.steps = Pipeline
    /\ last.handed # last.cand

\* C28: on the view of an open write transaction,
\* internal_assert_or_create and internal_migrate_or_create of a bootstrap
\* entry return Ok; they add exactly one copy of the entry when no entry of
\* the view has its name and uuid, and leave the view as it is when one has.
C28_OrCreate ==
    wopen =>
        \A e \in {SystemInfo, Anonymous} :
            LET filt == CHOOSE f \in filter_from_attrs(e) : TRUE
                there == be_search(be_txn, filt) # <<>>
                a == internal_assert_or_create(be_txn, e, "Ok")
                m == internal_migrate_or_create(be_txn, e, "Ok")
            IN  /\ a.res = "Ok" /\ m.res = "Ok"
                /\ a.store = IF there THEN be_txn ELSE be_txn \o <<e>>
                /\ m.store = a.store

\* C29: commit() returns Ok only if schema validation passed, the Record
\* Store commit succeeded and the Schema Store commit was performed.
C29_CommitOkOnlyIf ==
    (fin.how = "commit" /\ fin.res = "Ok") =>
        /\ fin.v = "Ok"
        /\ fin.b = "Ok"
        /\ be_stat = "committed"
        /\ schema_stat = "committed"

\* C30: when initialise failed in start(), the transaction it ran in is not
\* committed and no bootstrap entry is in the Record Store.
C30_StartupAllOrNothing ==
    (last.op = "start" /\ last.res # "Ok") =>
        /\ be_stat # "committed"
        /\ be = <<>>

====
